---- MODULE Spec2Model ----
(***************************************************************************)
(* Model of include/internal/time.h: the OSSL_TIME value type (one         *)
(* uint64_t tick count), its conversions, its comparison and its           *)
(* saturating arithmetic.                                                  *)
(*                                                                         *)
(* TLC's integers are 32 bits wide, so a 64-bit tick count is held at its  *)
(* full width as a natural number written in base 10000: a sequence of     *)
(* limbs, least significant first, with no leading zero limb (zero is      *)
(* <<>>).  5 is <<5>>, 1500000000 is <<0, 0, 15>> and 2^64-1 is            *)
(* <<1615, 955, 737, 6744, 1844>>.   U(n) builds the number from a TLC     *)
(* integer and ToInt(x) reads a small one back.                            *)
(***************************************************************************)
EXTENDS Integers, Sequences, FiniteSets, TLC

(***************************************************************************)
(* Natural numbers of any size                                             *)
(***************************************************************************)
Base == 10000

RECURSIVE U(_)
U(n) == IF n = 0 THEN <<>> ELSE <<n % Base>> \o U(n \div Base)

RECURSIVE ToInt(_)
ToInt(x) == IF x = <<>> THEN 0 ELSE Head(x) + Base * ToInt(Tail(x))

Zero == <<>>
One == <<1>>

Limb(x, i) == IF i <= Len(x) THEN x[i] ELSE 0

IsNat(x) ==
    /\ x \in Seq(0 .. Base - 1)
    /\ (x = <<>> \/ x[Len(x)] # 0)

RECURSIVE NatNorm(_)
NatNorm(s) ==
    IF s = <<>> \/ s[Len(s)] # 0 THEN s ELSE NatNorm(SubSeq(s, 1, Len(s) - 1))

RECURSIVE NatCmpFrom(_, _, _)
NatCmpFrom(x, y, i) ==
    IF i = 0 THEN 0
    ELSE IF x[i] > y[i] THEN 1
    ELSE IF x[i] < y[i] THEN -1
    ELSE NatCmpFrom(x, y, i - 1)

\* -1, 0 or 1 as x is below, equal to or above y
NatCmp(x, y) ==
    IF Len(x) > Len(y) THEN 1
    ELSE IF Len(x) < Len(y) THEN -1
    ELSE NatCmpFrom(x, y, Len(x))

NatLt(x, y) == NatCmp(x, y) < 0
NatGt(x, y) == NatCmp(x, y) > 0
NatLe(x, y) == NatCmp(x, y) <= 0
NatGe(x, y) == NatCmp(x, y) >= 0

\* the number whose limb i, before carrying, is cols[i]: each limb is reduced
\* modulo Base and the rest carried (borrowed, when negative) to the next
RECURSIVE NatCarryFrom(_, _, _)
NatCarryFrom(cols, i, carry) ==
    IF i > Len(cols) /\ carry = 0 THEN <<>>
    ELSE LET v == (IF i <= Len(cols) THEN cols[i] ELSE 0) + carry
         IN  <<v % Base>> \o NatCarryFrom(cols, i + 1, v \div Base)

NatCarry(cols) == NatNorm(NatCarryFrom(cols, 1, 0))

NatAdd(x, y) ==
    NatCarry([i \in 1 .. (IF Len(x) > Len(y) THEN Len(x) ELSE Len(y)) |->
                 Limb(x, i) + Limb(y, i)])

\* x - y, for y <= x
NatSub(x, y) == NatCarry([i \in 1 .. Len(x) |-> x[i] - Limb(y, i)])

\* x * d for one limb d
NatTimesLimb(x, d) == NatCarry([i \in 1 .. Len(x) |-> x[i] * d])

\* the sum of x[i] * y[k + 1 - i] over the i from lo to hi
RECURSIVE NatColumn(_, _, _, _, _)
NatColumn(x, y, k, lo, hi) ==
    IF lo > hi THEN 0
    ELSE x[lo] * y[k + 1 - lo] + NatColumn(x, y, k, lo + 1, hi)

\* x * y, for numbers of at most 20 limbs
NatMul(x, y) ==
    IF x = <<>> \/ y = <<>> THEN <<>>
    ELSE NatCarry([k \in 1 .. Len(x) + Len(y) - 1 |->
                      NatColumn(x, y, k,
                                IF k + 1 - Len(y) > 1 THEN k + 1 - Len(y) ELSE 1,
                                IF k < Len(x) THEN k ELSE Len(x))])

\* division of the limbs i .. Len(x) of x by one limb f, most significant limb
\* first: the quotient's limbs and the remainder as an integer
RECURSIVE NatDivLimbFrom(_, _, _)
NatDivLimbFrom(x, f, i) ==
    IF i > Len(x) THEN [q |-> <<>>, r |-> 0]
    ELSE LET h == NatDivLimbFrom(x, f, i + 1)
             cur == h.r * Base + x[i]
         IN  [q |-> <<cur \div f>> \o h.q, r |-> cur % f]

NatDivLimb(x, f) ==
    LET h == NatDivLimbFrom(x, f, 1)
    IN  [q |-> NatNorm(h.q), r |-> U(h.r)]

\* the largest d <= e with d * y <= cur
RECURSIVE NatDigit(_, _, _)
NatDigit(cur, y, e) ==
    IF e = 0 \/ NatLe(NatTimesLimb(y, e), cur) THEN e ELSE NatDigit(cur, y, e - 1)

\* long division of x by y with Len(y) >= 2 and y[Len(y)] >= Base \div 2, so
\* that the quotient of the leading limbs is at most 2 above the digit sought;
\* the limbs i .. Len(x) - Len(y) + 1 of the quotient, most significant first
RECURSIVE NatLongFrom(_, _, _)
NatLongFrom(x, y, i) ==
    IF i > Len(x) - Len(y) + 1
    THEN [q |-> <<>>, r |-> NatNorm(SubSeq(x, Len(x) - Len(y) + 2, Len(x)))]
    ELSE LET h == NatLongFrom(x, y, i + 1)
         IN  IF h.r = <<>> /\ x[i] = 0
             THEN [q |-> <<0>> \o h.q, r |-> <<>>]
             ELSE LET cur == NatNorm(<<x[i]>> \o h.r)
                      lead == Limb(cur, Len(y) + 1) * Base + Limb(cur, Len(y))
                      est == lead \div y[Len(y)]
                      d == NatDigit(cur, y, IF est > Base - 1 THEN Base - 1 ELSE est)
                  IN  [q |-> <<d>> \o h.q, r |-> NatSub(cur, NatTimesLimb(y, d))]

\* quotient and remainder of x by y, for y # 0
NatDivMod(x, y) ==
    IF NatLt(x, y) THEN [q |-> Zero, r |-> x]
    ELSE IF Len(y) = 1 THEN NatDivLimb(x, y[1])
    ELSE LET f == Base \div (y[Len(y)] + 1)
             h == NatLongFrom(NatTimesLimb(x, f), NatTimesLimb(y, f), 1)
         IN  [q |-> NatNorm(h.q), r |-> NatDivLimb(h.r, f).q]

NatDiv(x, y) == NatDivMod(x, y).q
NatMod(x, y) == NatDivMod(x, y).r

RECURSIVE NatPow2(_)
NatPow2(n) ==
    IF n = 0 THEN One
    ELSE LET h == NatPow2(n \div 2)
         IN  IF n % 2 = 0 THEN NatMul(h, h) ELSE NatMul(NatMul(h, h), U(2))


(***************************************************************************)
(* uint64_t: C's unsigned 64-bit arithmetic, which wraps modulo 2^64       *)
(***************************************************************************)
\* 2^31, 2^32, 2^63, 2^64 and 2^64-1, written out
TwoTo31 == <<3648, 4748, 21>>
TwoTo32 == <<7296, 9496, 42>>
TwoTo63 == <<5808, 5477, 368, 3372, 922>>
TwoTo64 == <<1616, 955, 737, 6744, 1844>>
UINT64_MAX == <<1615, 955, 737, 6744, 1844>>

TwoTo(n) ==
    CASE n = 31 -> TwoTo31
      [] n = 32 -> TwoTo32
      [] n = 63 -> TwoTo63
      [] n = 64 -> TwoTo64
      [] OTHER -> NatPow2(n)

IsU64(x) == IsNat(x) /\ NatLe(x, UINT64_MAX)

U64Wrap(x) == IF NatLt(x, TwoTo64) THEN x ELSE NatMod(x, TwoTo64)
U64Add(x, y) == U64Wrap(NatAdd(x, y))
U64Sub(x, y) == IF NatGe(x, y) THEN NatSub(x, y) ELSE NatSub(NatAdd(x, TwoTo64), y)
U64Mul(x, y) == U64Wrap(NatMul(x, y))
U64Div(x, y) == NatDiv(x, y)
U64Mod(x, y) == NatMod(x, y)
U64Not(x) == NatSub(UINT64_MAX, x)

\* a signed integer: its sign and its magnitude
SignedOf(neg, mag) == [neg |-> neg, mag |-> mag]

\* conversion of an unsigned value to a signed type of the given width
\* (two's complement: the value modulo 2^bits, read as signed)
CastSigned(v, bits) ==
    LET m == NatMod(v, TwoTo(bits))
    IN  IF NatGe(m, TwoTo(bits - 1))
        THEN SignedOf(TRUE, NatSub(TwoTo(bits), m))
        ELSE SignedOf(FALSE, m)

(***************************************************************************)
(* OSSL_SAFE_MATH_UNSIGNED(time, uint64_t): the checked primitives.  Each  *)
(* returns the wrapped result and the error flag after "*err |= 1".        *)
(***************************************************************************)
safe_add_time(a, b, err) ==
    [r |-> U64Add(a, b),
     err |-> IF NatGt(b, NatSub(UINT64_MAX, a)) THEN 1 ELSE err]

safe_sub_time(a, b, err) ==
    [r |-> U64Sub(a, b),
     err |-> IF NatGt(b, a) THEN 1 ELSE err]

safe_mul_time(a, b, err) ==
    [r |-> U64Mul(a, b),
     err |-> IF b # Zero /\ NatGt(a, U64Div(UINT64_MAX, b)) THEN 1 ELSE err]

safe_div_time(a, b, err) ==
    IF b # Zero
    THEN [r |-> U64Div(a, b), err |-> err]
    ELSE [r |-> UINT64_MAX, err |-> 1]

(***************************************************************************)
(* time.h                                                                  *)
(***************************************************************************)
OSSL_TIME_SECOND == U(1000000000)
OSSL_TIME_MS == U64Div(OSSL_TIME_SECOND, U(1000))
OSSL_TIME_US == U64Div(OSSL_TIME_MS, U(1000))

\* the width of tv_sec: long int under _WIN32, time_t elsewhere
WIN32_LONG_BITS == 32
TIME_T_BITS == 64

ossl_ticks2time(ticks) == [t |-> ticks]

ossl_time2ticks(t) == t.t

ossl_time_zero == ossl_ticks2time(Zero)

\* mutant: the end of the range taken as the largest signed 64-bit value
ossl_time_infinite_signed == ossl_ticks2time(NatSub(TwoTo63, One))

ossl_time_infinite == ossl_ticks2time(U64Not(Zero))

TvSecBits(w32) == IF w32 THEN WIN32_LONG_BITS ELSE TIME_T_BITS

\* mutant: the microseconds rounded to the nearest instead of truncated
ossl_time_time_to_timeval_rounding(t, w32) ==
    [tv_sec |-> CastSigned(U64Div(t.t, OSSL_TIME_SECOND), TvSecBits(w32)),
     tv_usec |-> CastSigned(U64Div(U64Add(U64Mod(t.t, OSSL_TIME_SECOND), U(500)),
                                   U64Div(OSSL_TIME_SECOND, U(1000000))),
                            TvSecBits(w32))]

ossl_time_time_to_timeval(t, w32) ==
    [tv_sec |-> CastSigned(U64Div(t.t, OSSL_TIME_SECOND), TvSecBits(w32)),
     tv_usec |-> CastSigned(U64Div(U64Mod(t.t, OSSL_TIME_SECOND),
                                   U64Div(OSSL_TIME_SECOND, U(1000000))),
                            TvSecBits(w32))]

\* mutant: the sign of the wrapped difference, read as a signed 64-bit value
ossl_time_compare_signed_difference(a, b) ==
    LET d == U64Sub(a.t, b.t)
    IN  IF d = Zero THEN 0
        ELSE IF NatGe(d, TwoTo63) THEN -1
        ELSE 1

ossl_time_compare(a, b) ==
    IF NatGt(a.t, b.t) THEN 1
    ELSE IF NatLt(a.t, b.t) THEN -1
    ELSE 0

\* mutant: the error flag ignored, the wrapped sum returned
ossl_time_add_wrapping(a, b) == [t |-> safe_add_time(a.t, b.t, 0).r]

ossl_time_add(a, b) ==
    LET s == safe_add_time(a.t, b.t, 0)
    IN  IF s.err # 0 THEN ossl_time_infinite ELSE [t |-> s.r]

\* mutant: underflow saturating upward, as overflow does
ossl_time_subtract_saturating_up(a, b) ==
    LET s == safe_sub_time(a.t, b.t, 0)
    IN  IF s.err # 0 THEN ossl_time_infinite ELSE [t |-> s.r]

\* mutant: the error flag ignored, the wrapped difference returned
ossl_time_subtract_wrapping(a, b) == [t |-> safe_sub_time(a.t, b.t, 0).r]

ossl_time_subtract(a, b) ==
    LET s == safe_sub_time(a.t, b.t, 0)
    IN  IF s.err # 0 THEN ossl_time_zero ELSE [t |-> s.r]

\* mutant: the operands never swapped
ossl_time_abs_difference_unordered(a, b) == ossl_time_subtract(a, b)

ossl_time_abs_difference(a, b) ==
    IF NatGt(a.t, b.t) THEN ossl_time_subtract(a, b)
                       ELSE ossl_time_subtract(b, a)

\* mutant: the error flag ignored, the wrapped product returned
ossl_time_multiply_wrapping(a, b) == [t |-> safe_mul_time(a.t, b, 0).r]

ossl_time_multiply(a, b) ==
    LET s == safe_mul_time(a.t, b, 0)
    IN  IF s.err # 0 THEN ossl_time_infinite ELSE [t |-> s.r]

\* mutant: division by zero saturating upward
ossl_time_divide_saturating_up(a, b) ==
    LET s == safe_div_time(a.t, b, 0)
    IN  IF s.err # 0 THEN ossl_time_infinite ELSE [t |-> s.r]

ossl_time_divide(a, b) ==
    LET s == safe_div_time(a.t, b, 0)
    IN  IF s.err # 0 THEN ossl_time_zero ELSE [t |-> s.r]

\* mutant: the test inverted
ossl_time_max_inverted(a, b) == IF NatLt(a.t, b.t) THEN a ELSE b

ossl_time_max(a, b) == IF NatGt(a.t, b.t) THEN a ELSE b

ossl_time_min(a, b) == IF NatLt(a.t, b.t) THEN a ELSE b

(***************************************************************************)
(* The inputs: tick counts around both ends of the range and the values    *)
(* the conversions and the saturation turn on.                             *)
(***************************************************************************)
Radius == 1
MaxSteps == 2

TickSamples ==
    {U(i) : i \in 0 .. Radius}
    \cup {NatSub(UINT64_MAX, U(i)) : i \in 0 .. Radius}
    \cup {U(5), U(10), U(999), U(999999999), U(1000000000), U(1500000000),
          U(1999999999), TwoTo63,
          NatSub(NatMul(TwoTo31, OSSL_TIME_SECOND), One),
          NatMul(TwoTo31, OSSL_TIME_SECOND)}

\* the second operand of an addition or a subtraction
OperandSamples ==
    {ossl_ticks2time(n) :
        n \in {U(i) : i \in 0 .. Radius}
               \cup {NatSub(UINT64_MAX, U(i)) : i \in 0 .. Radius}
               \cup {U(5), U(10), U(1000000000), TwoTo63}}

ScalarSamples ==
    {U(i) : i \in 0 .. Radius + 1} \cup {U(1000), TwoTo32, UINT64_MAX}

TimeSamples == {ossl_ticks2time(n) : n \in TickSamples}

NoTimeval == [tv_sec |-> SignedOf(FALSE, Zero), tv_usec |-> SignedOf(FALSE, Zero)]
NoCompare == [ab |-> 0, ba |-> 0, bc |-> 0, ac |-> 0, aa |-> 0]

(***************************************************************************)
(* State: val is the time value the caller holds; op names the last call,  *)
(* arg_a, arg_b, arg_c (times) and arg_k (a scalar or a tick count) its    *)
(* arguments; ret, ret_cmp, ret_tv, ret_ticks hold what it returned;       *)
(* steps counts the arithmetic calls made; win32 is the build (_WIN32      *)
(* defined or not).                                                        *)
(***************************************************************************)
VARIABLES val, op, arg_a, arg_b, arg_c, arg_k, ret, ret_cmp, ret_tv, ret_ticks,
          steps, win32

vars == <<val, op, arg_a, arg_b, arg_c, arg_k, ret, ret_cmp, ret_tv, ret_ticks,
          steps, win32>>

Init ==
    /\ val \in TimeSamples
    /\ win32 \in BOOLEAN
    /\ op = "none"
    /\ arg_a = ossl_time_zero
    /\ arg_b = ossl_time_zero
    /\ arg_c = ossl_time_zero
    /\ arg_k = Zero
    /\ ret = ossl_time_zero
    /\ ret_cmp = NoCompare
    /\ ret_tv = NoTimeval
    /\ ret_ticks = Zero
    /\ steps = 0

\* the record of a call: its name, its arguments and what it returned
Called(name, aa, bb, cc, kk, res, cmpres, tvres, tickres) ==
    /\ op' = name
    /\ arg_a' = aa
    /\ arg_b' = bb
    /\ arg_c' = cc
    /\ arg_k' = kk
    /\ ret' = res
    /\ ret_cmp' = cmpres
    /\ ret_tv' = tvres
    /\ ret_ticks' = tickres

\* val = ossl_time_add(val, bb)
Add ==
    \E bb \in OperandSamples :
        /\ steps < MaxSteps
        /\ steps' = steps + 1
        /\ val' = ossl_time_add(val, bb)
        /\ Called("add", val, bb, ossl_time_zero, Zero,
                  val', NoCompare, NoTimeval, Zero)
        /\ UNCHANGED win32

\* val = ossl_time_subtract(val, bb)
Subtract ==
    \E bb \in OperandSamples :
        /\ steps < MaxSteps
        /\ steps' = steps + 1
        /\ val' = ossl_time_subtract(val, bb)
        /\ Called("subtract", val, bb, ossl_time_zero, Zero,
                  val', NoCompare, NoTimeval, Zero)
        /\ UNCHANGED win32

\* val = ossl_time_multiply(val, kk)
Multiply ==
    \E kk \in ScalarSamples :
        /\ steps < MaxSteps
        /\ steps' = steps + 1
        /\ val' = ossl_time_multiply(val, kk)
        /\ Called("multiply", val, ossl_time_zero, ossl_time_zero, kk,
                  val', NoCompare, NoTimeval, Zero)
        /\ UNCHANGED win32

\* val = ossl_time_divide(val, kk)
Divide ==
    \E kk \in ScalarSamples :
        /\ steps < MaxSteps
        /\ steps' = steps + 1
        /\ val' = ossl_time_divide(val, kk)
        /\ Called("divide", val, ossl_time_zero, ossl_time_zero, kk,
                  val', NoCompare, NoTimeval, Zero)
        /\ UNCHANGED win32

\* ossl_time_abs_difference(val, bb)
AbsDifference ==
    \E bb \in TimeSamples :
        /\ Called("abs_difference", val, bb, ossl_time_zero, Zero,
                  ossl_time_abs_difference(val, bb), NoCompare, NoTimeval, Zero)
        /\ UNCHANGED <<val, steps, win32>>

\* ossl_time_max(val, bb)
Max ==
    \E bb \in TimeSamples :
        /\ Called("max", val, bb, ossl_time_zero, Zero,
                  ossl_time_max(val, bb), NoCompare, NoTimeval, Zero)
        /\ UNCHANGED <<val, steps, win32>>

\* ossl_time_min(val, bb)
Min ==
    \E bb \in TimeSamples :
        /\ Called("min", val, bb, ossl_time_zero, Zero,
                  ossl_time_min(val, bb), NoCompare, NoTimeval, Zero)
        /\ UNCHANGED <<val, steps, win32>>

\* ossl_time_compare on every pair of val, bb, cc that the order laws need
Compare ==
    \E bb \in TimeSamples, cc \in TimeSamples :
        /\ Called("compare", val, bb, cc, Zero, ossl_time_zero,
                  [ab |-> ossl_time_compare(val, bb),
                   ba |-> ossl_time_compare(bb, val),
                   bc |-> ossl_time_compare(bb, cc),
                   ac |-> ossl_time_compare(val, cc),
                   aa |-> ossl_time_compare(val, val)],
                  NoTimeval, Zero)
        /\ UNCHANGED <<val, steps, win32>>

\* ossl_time_time_to_timeval(val, &ret_tv)
TimeToTimeval ==
    /\ Called("time_to_timeval", val, ossl_time_zero, ossl_time_zero, Zero,
              ossl_time_zero, NoCompare, ossl_time_time_to_timeval(val, win32), Zero)
    /\ UNCHANGED <<val, steps, win32>>

\* ret_ticks = ossl_time2ticks(val)
Time2Ticks ==
    /\ Called("time2ticks", val, ossl_time_zero, ossl_time_zero, Zero,
              ossl_time_zero, NoCompare, NoTimeval, ossl_time2ticks(val))
    /\ UNCHANGED <<val, steps, win32>>

\* val = ossl_ticks2time(n)
Ticks2Time ==
    \E n \in TickSamples :
        /\ val' = ossl_ticks2time(n)
        /\ Called("ticks2time", ossl_time_zero, ossl_time_zero, ossl_time_zero, n,
                  val', NoCompare, NoTimeval, Zero)
        /\ UNCHANGED <<steps, win32>>

\* val = ossl_time_zero()
TimeZero ==
    /\ val' = ossl_time_zero
    /\ Called("zero", ossl_time_zero, ossl_time_zero, ossl_time_zero, Zero,
              val', NoCompare, NoTimeval, Zero)
    /\ UNCHANGED <<steps, win32>>

\* val = ossl_time_infinite()
TimeInfinite ==
    /\ val' = ossl_time_infinite
    /\ Called("infinite", ossl_time_zero, ossl_time_zero, ossl_time_zero, Zero,
              val', NoCompare, NoTimeval, Zero)
    /\ UNCHANGED <<steps, win32>>

\* the saturating arithmetic, call after call
Next == Add \/ Subtract \/ Multiply \/ Divide

Spec == Init /\ [][Next]_vars

\* comparison, the greater, the lesser and the distance of two values
NextOrder == Compare \/ Max \/ Min \/ AbsDifference

SpecOrder == Init /\ [][NextOrder]_vars

\* construction and conversion
NextConv == Ticks2Time \/ TimeZero \/ TimeInfinite \/ Time2Ticks \/ TimeToTimeval

SpecConv == Init /\ [][NextConv]_vars

TypeOK ==
    /\ IsU64(val.t) /\ IsU64(arg_a.t) /\ IsU64(arg_b.t) /\ IsU64(arg_c.t)
    /\ IsU64(ret.t) /\ IsU64(arg_k) /\ IsU64(ret_ticks)
    /\ steps \in 0 .. MaxSteps
    /\ win32 \in BOOLEAN

(***************************************************************************)
(* Properties                                                              *)
(***************************************************************************)

\* C1: ossl_time_add(a, b) is the exact sum a + b when the sum is at most
\* 2^64-1 and ossl_time_infinite() (tick 2^64-1) when it is more; so
\* add(zero(), x) = x and add(infinite(), fromTicks(1)) = infinite().
C1_AddSaturatesUp ==
    op = "add" =>
        LET sum == NatAdd(arg_a.t, arg_b.t)
        IN  /\ NatLe(sum, UINT64_MAX) => ret.t = sum
            /\ NatGt(sum, UINT64_MAX) =>
                   ret = ossl_time_infinite /\ ret.t = UINT64_MAX
            /\ arg_a = ossl_time_zero => ret = arg_b
            /\ (arg_a = ossl_time_infinite /\ arg_b = ossl_ticks2time(U(1))) =>
                   ret = ossl_time_infinite

C1_Witness ==
    /\ op = "add"
    /\ arg_a = ossl_time_infinite
    /\ arg_b = ossl_ticks2time(U(1))
    /\ ret = ossl_time_infinite

\* C2: ossl_time_subtract(a, b) is the exact difference a - b when b <= a and
\* ossl_time_zero() when b > a; the result is never above a.
C2_SubtractSaturatesDown ==
    op = "subtract" =>
        /\ NatLe(arg_b.t, arg_a.t) => NatAdd(ret.t, arg_b.t) = arg_a.t
        /\ NatGt(arg_b.t, arg_a.t) => ret = ossl_time_zero /\ ret.t = Zero
        /\ NatLe(ret.t, arg_a.t)

C2_Witness ==
    /\ op = "subtract"
    /\ arg_a = ossl_ticks2time(U(5))
    /\ arg_b = ossl_ticks2time(U(10))
    /\ ret = ossl_time_zero

\* C3: ossl_time_multiply(a, k) is the exact product a * k when the product is
\* at most 2^64-1 and ossl_time_infinite() when it is more; so
\* multiply(fromTicks(2^64-1), 2) = infinite().
C3_MultiplySaturatesUp ==
    op = "multiply" =>
        LET prod == NatMul(arg_a.t, arg_k)
        IN  /\ NatLe(prod, UINT64_MAX) => ret.t = prod
            /\ NatGt(prod, UINT64_MAX) =>
                   ret = ossl_time_infinite /\ ret.t = UINT64_MAX

C3_Witness ==
    /\ op = "multiply"
    /\ arg_a.t = UINT64_MAX
    /\ arg_k = U(2)
    /\ ret = ossl_time_infinite

\* C4: ossl_time_divide(x, 0) is ossl_time_zero() for every x, infinite()
\* included, and for every k >= 1 ossl_time_divide(x, k) is the truncated
\* quotient: the q with q * k <= x < (q + 1) * k.
C4_DivideByZeroIsZero ==
    op = "divide" =>
        /\ arg_k = Zero => ret = ossl_time_zero /\ ret.t = Zero
        /\ arg_k # Zero =>
               /\ NatLe(NatMul(ret.t, arg_k), arg_a.t)
               /\ NatLt(arg_a.t, NatMul(NatAdd(ret.t, One), arg_k))

C4_Witness ==
    /\ op = "divide"
    /\ arg_a = ossl_time_infinite
    /\ arg_k = Zero
    /\ ret = ossl_time_zero

\* C10: no step of a chain of add, subtract, multiply and divide calls wraps
\* around: add(a, b) >= max(a, b), multiply(a, k) >= a when k >= 1,
\* subtract(a, b) <= a and divide(a, k) <= a; and every call returns a tick
\* count in 0 .. 2^64-1.
C10_NoWrapAround ==
    /\ op = "add" => NatGe(ret.t, arg_a.t) /\ NatGe(ret.t, arg_b.t)
    /\ (op = "multiply" /\ NatGe(arg_k, One)) => NatGe(ret.t, arg_a.t)
    /\ op = "subtract" => NatLe(ret.t, arg_a.t)
    /\ op = "divide" => NatLe(ret.t, arg_a.t)
    /\ IsNat(ret.t) /\ NatLe(ret.t, UINT64_MAX)
    /\ IsNat(val.t) /\ NatLe(val.t, UINT64_MAX)
    /\ op \in {"add", "subtract", "multiply", "divide"} => val = ret

\* a second call of a chain, on operands whose true difference is negative
C10_Witness ==
    /\ steps >= 2
    /\ op = "subtract"
    /\ NatGt(arg_b.t, arg_a.t)
    /\ arg_a.t # Zero
    /\ ret = ossl_time_zero

\* C5: ossl_time_abs_difference(a, b) is subtract(max(a, b), min(a, b)), the
\* same in both orders, and always the exact distance of a and b: it added to
\* the lesser gives the greater, and it is zero only when a = b.
C5_AbsDifferenceExact ==
    op = "abs_difference" =>
        LET hi == IF NatGe(arg_a.t, arg_b.t) THEN arg_a.t ELSE arg_b.t
            lo == IF NatGe(arg_a.t, arg_b.t) THEN arg_b.t ELSE arg_a.t
        IN  /\ ret = ossl_time_subtract(ossl_time_max(arg_a, arg_b),
                                        ossl_time_min(arg_a, arg_b))
            /\ ret = ossl_time_abs_difference(arg_b, arg_a)
            /\ NatAdd(ret.t, lo) = hi
            /\ ret = ossl_time_zero <=> arg_a.t = arg_b.t

C5_Witness ==
    /\ op = "abs_difference"
    /\ NatLt(arg_a.t, arg_b.t)
    /\ ret.t # Zero
    /\ NatAdd(ret.t, arg_a.t) = arg_b.t

\* C6: ossl_time_compare orders the raw tick counts: its result is -1, 0 or 1,
\* -1 iff a < b, 1 iff a > b, 0 iff a = b; compare(a, b) = -compare(b, a),
\* compare(a, a) = 0, and compare(a, b) <= 0 with compare(b, c) <= 0 gives
\* compare(a, c) <= 0.
C6_CompareTotalOrder ==
    op = "compare" =>
        /\ ret_cmp.ab \in {-1, 0, 1}
        /\ ret_cmp.ab = -1 <=> NatLt(arg_a.t, arg_b.t)
        /\ ret_cmp.ab = 1 <=> NatGt(arg_a.t, arg_b.t)
        /\ ret_cmp.ab = 0 <=> arg_a.t = arg_b.t
        /\ ret_cmp.ab = -ret_cmp.ba
        /\ ret_cmp.aa = 0
        /\ (ret_cmp.ab <= 0 /\ ret_cmp.bc <= 0) => ret_cmp.ac <= 0

C6_Witness ==
    /\ op = "compare"
    /\ ret_cmp.ab = -1
    /\ ret_cmp.bc = -1
    /\ ret_cmp.ac = -1
    /\ ret_cmp.ba = 1

\* C7: ossl_time_max(a, b) is the operand with the greater tick count and
\* ossl_time_min(a, b) the one with the lesser: together they are {a, b}, and
\* compare(min(a, b), max(a, b)) <= 0.
C7_MaxMinPartition ==
    /\ op = "max" =>
           /\ ret \in {arg_a, arg_b}
           /\ NatGe(ret.t, arg_a.t) /\ NatGe(ret.t, arg_b.t)
           /\ {ossl_time_min(arg_a, arg_b), ret} = {arg_a, arg_b}
           /\ ossl_time_compare(ossl_time_min(arg_a, arg_b), ret) <= 0
    /\ op = "min" =>
           /\ ret \in {arg_a, arg_b}
           /\ NatLe(ret.t, arg_a.t) /\ NatLe(ret.t, arg_b.t)
           /\ {ret, ossl_time_max(arg_a, arg_b)} = {arg_a, arg_b}
           /\ ossl_time_compare(ret, ossl_time_max(arg_a, arg_b)) <= 0

C7_Witness ==
    /\ op = "max"
    /\ NatLt(arg_a.t, arg_b.t)
    /\ ret = arg_b
    /\ ossl_time_min(arg_a, arg_b) = arg_a

\* C8 as stated: for every tick count t, tv_sec is floor(t / 1000000000) and
\* tv_usec is floor((t mod 1000000000) / 1000), within 0 .. 999999.
C8_Original ==
    op = "time_to_timeval" =>
        LET sec == ret_tv.tv_sec
            usec == ret_tv.tv_usec
            whole == NatAdd(NatMul(sec.mag, U(1000000000)), NatMul(usec.mag, U(1000)))
        IN  /\ ~sec.neg /\ ~usec.neg
            /\ NatLe(usec.mag, U(999999))
            /\ NatLe(whole, arg_a.t)
            /\ NatLt(arg_a.t, NatAdd(whole, U(1000)))

\* C8, amended: tv_usec is floor((t mod 1000000000) / 1000), within
\* 0 .. 999999, for every t; tv_sec is floor(t / 1000000000) whenever that
\* quotient fits the signed type of tv_sec, which is every t where the type has
\* 64 bits; under _WIN32, where it is a 32-bit long int, tv_sec is not the
\* quotient for t >= 2^31 * 1000000000.
C8_TimevalSplit ==
    op = "time_to_timeval" =>
        LET sec == ret_tv.tv_sec
            usec == ret_tv.tv_usec
            quot == NatDiv(arg_a.t, U(1000000000))
            rest == NatSub(arg_a.t, NatMul(quot, U(1000000000)))
        IN  /\ ~usec.neg
            /\ NatLe(usec.mag, U(999999))
            /\ NatLe(NatMul(usec.mag, U(1000)), rest)
            /\ NatLt(rest, NatAdd(NatMul(usec.mag, U(1000)), U(1000)))
            /\ NatLt(quot, TwoTo(TvSecBits(win32) - 1)) => sec = SignedOf(FALSE, quot)
            /\ ~win32 => sec = SignedOf(FALSE, quot)
            /\ (win32 /\ NatGe(quot, TwoTo31)) => sec # SignedOf(FALSE, quot)
            /\ arg_a.t = U(1500000000) =>
                   sec = SignedOf(FALSE, U(1)) /\ usec = SignedOf(FALSE, U(500000))

C8_Witness ==
    /\ op = "time_to_timeval"
    /\ arg_a.t = U(1500000000)
    /\ ret_tv.tv_sec = SignedOf(FALSE, U(1))
    /\ ret_tv.tv_usec = SignedOf(FALSE, U(500000))

\* C9: ossl_time2ticks(ossl_ticks2time(n)) = n for every tick count n;
\* ossl_time_zero() holds tick 0 and ossl_time_infinite() tick 2^64-1; and
\* under ossl_time_compare zero() is the least and infinite() the greatest of
\* all time values.
C9_TicksRoundTrip ==
    /\ op = "ticks2time" => ossl_time2ticks(ret) = arg_k
    /\ op = "time2ticks" => ret_ticks = arg_a.t /\ ossl_ticks2time(ret_ticks) = arg_a
    /\ op = "zero" => ossl_time2ticks(ret) = Zero
    /\ op = "infinite" =>
           /\ ossl_time2ticks(ret) = NatSub(NatPow2(64), One)
           /\ ossl_time2ticks(ret) = UINT64_MAX
           /\ NatAdd(UINT64_MAX, One) = TwoTo64
           /\ TwoTo64 = NatMul(TwoTo32, TwoTo32)
           /\ TwoTo64 = NatAdd(TwoTo63, TwoTo63)
           /\ TwoTo32 = NatAdd(TwoTo31, TwoTo31)
    /\ ossl_time_compare(ossl_time_zero, val) <= 0
    /\ ossl_time_compare(val, ossl_time_infinite) <= 0

C9_Witness ==
    /\ op = "ticks2time"
    /\ arg_k = UINT64_MAX
    /\ ossl_time2ticks(val) = arg_k
    /\ ossl_time_compare(val, ossl_time_infinite) = 0

====
